---- MODULE Spec2Model ----
(***************************************************************************)
(* Blue-noise stippling (package stipple): the importance mapper, the      *)
(* repulsion kernel factory, the void-and-cluster sampler and the frame    *)
(* selection of the progressive GIF.                                       *)
(*                                                                         *)
(* Reals are fixed-point integers: a real v is the integer v * Scale.      *)
(* Brightness, sigma, content_bias and noise_scale_factor are given in     *)
(* hundredths, percentage in quarters, so that every input of the model    *)
(* is a number the program's floats hold exactly or round the same way.    *)
(***************************************************************************)
EXTENDS Integers, Sequences, FiniteSets, TLC

VARIABLES
    pc,                 \* position of the running function
    H, W,               \* grid shape
    image,              \* brightness grid, hundredths
    importance,         \* importance grid, fixed-point
    percentage,         \* quarters
    sigma,              \* hundredths
    content_bias,       \* hundredths
    noise_scale_factor, \* hundredths
    seed,               \* seed of the current call: None or an integer
    rng_state,          \* numpy's process-wide generator
    num_points, kernel_size, repulsion_kernel, energy,
    i, samples, stipple_image,
    run, prev,          \* number of the call in this process; the first call's result
    frame_increment, frame_indices, frames

vars == <<pc, H, W, image, importance, percentage, sigma, content_bias,
          noise_scale_factor, seed, rng_state, num_points, kernel_size,
          repulsion_kernel, energy, i, samples, stipple_image, run, prev,
          frame_increment, frame_indices, frames>>

(***************************************************************************)
(* Bounds of the model.                                                    *)
(***************************************************************************)
MaxDim == 5
MaxCells == 25
MaxPctQ == 5
MaxSigma == 200
MaxSamples == 12
MaxInc == 5
RngMod == 16

(***************************************************************************)
(* Arithmetic.                                                             *)
(***************************************************************************)
Scale == 10^4

\* seed=None; np.random.seed takes no negative seed.
None == -1

\* Python's int(): truncation toward zero of n/d, d > 0.
Trunc(n, d) == IF n >= 0 THEN n \div d ELSE -((-n) \div d)

Min2(a, b) == IF a <= b THEN a ELSE b
Max2(a, b) == IF a >= b THEN a ELSE b

\* np.inf, and the nan of 0/0; both absorb what is added to them.
Inf == 1000000000
NaN == -1000000000

AddE(a, b) ==
    IF a = NaN \/ b = NaN THEN NaN
    ELSE IF a >= Inf \/ b >= Inf THEN Inf
    ELSE a + b

\* exp(-n) for a natural n, fixed-point.
RECURSIVE ExpNegInt(_)
ExpNegInt(n) ==
    IF n = 0 THEN Scale
    ELSE IF n >= 10 THEN 0
    ELSE (ExpNegInt(n - 1) * 3679) \div Scale

\* exp(-f) for 0 <= f < 1, f fixed-point: the alternating series
\* 1 - f + f^2/2! - ..., term being the j-1st term.
RECURSIVE TaylorExpNeg(_, _, _)
TaylorExpNeg(f, j, term) ==
    IF term = 0 THEN 0
    ELSE term - TaylorExpNeg(f, j + 1, (term * f) \div (j * Scale))

\* np.exp(-num/den), fixed-point, for naturals num and den > 0.
ExpNegRatio(num, den) ==
    LET n == num \div den
        f == ((num % den) * Scale) \div den
    IN  (ExpNegInt(n) * TaylorExpNeg(f, 1, Scale)) \div Scale

(***************************************************************************)
(* Arrays.  A 2-D array of shape (h, w) is the sequence of its h * w       *)
(* elements in row-major order, numpy's layout: element [y, x] is number   *)
(* y * w + x + 1.                                                          *)
(***************************************************************************)
At(y, x, w) == y * w + x + 1
RowOf(n, w) == (n - 1) \div w
ColOf(n, w) == (n - 1) % w

\* The elements of an array, as a sequence.
Array(f) == f \o <<>>

\* The locations of the cells of rows y0..y1-1 and columns x0..x1-1.
Region(y0, y1, x0, x1, w) == {At(y, x, w) : y \in y0 .. y1 - 1, x \in x0 .. x1 - 1}

Cells(h, w) == 1 .. h * w

\* np.unravel_index(np.argmin(E[region])): the row-major-first location of
\* the minimum of E over a non-empty region.
ArgMin(E, region) ==
    CHOOSE p \in region :
        \A q \in region : E[p] < E[q] \/ (E[p] = E[q] /\ p <= q)

RECURSIVE SetMin(_)
SetMin(S) ==
    LET x == CHOOSE y \in S : TRUE
    IN  IF S = {x} THEN x ELSE Min2(x, SetMin(S \ {x}))

RECURSIVE SetMax(_)
SetMax(S) ==
    LET x == CHOOSE y \in S : TRUE
    IN  IF S = {x} THEN x ELSE Max2(x, SetMax(S \ {x}))

(***************************************************************************)
(* Repulsion kernel factory.                                               *)
(***************************************************************************)
\* The mutant of KernelSize: int(6 * sigma) without the + 1.
KernelSizeNoPlusOne(s) ==
    LET k == Trunc(6 * s, 100)
    IN  IF k % 2 = 0 THEN k + 1 ELSE k

\* kernel_size of void_and_cluster for sigma s (hundredths).
KernelSize(s) ==
    LET k == Trunc(6 * s, 100) + 1
    IN  IF k % 2 = 0 THEN k + 1 ELSE k

\* toroidal_gaussian_kernel(size, sigma, normalize=False): the side of the
\* array it returns (np.ogrid of a negative size is empty).
KernelSide(size) ==
    LET sz == IF size % 2 = 0 THEN size + 1 ELSE size
    IN  Max2(sz, 0)

\* toroidal_gaussian_kernel(size, sigma, normalize=False) * sigma**2.
RepulsionKernel(size, s) ==
    LET k == KernelSide(size)
        center == k \div 2
    IN  Array([n \in 1 .. k * k |->
            LET dy == RowOf(n, k) - center
                dx == ColOf(n, k) - center
                d2 == dy * dy + dx * dx
            IN  IF s = 0 THEN NaN
                ELSE (ExpNegRatio(d2 * 10000, 2 * s * s) * s * s) \div 10000])

(***************************************************************************)
(* Importance mapper: compute_importance with its default parameters,      *)
(* which is how run_stippling and run_sweep call it.                       *)
(***************************************************************************)
extreme_downweight == 30
dark_threshold == 20
light_threshold == 80
dark_sigma == 15
light_sigma == 15
mid_tone_center == 65
mid_tone_sigma == 20
mid_tone_boost == 150

\* dark_weights of a pixel of brightness b (hundredths), fixed-point.
DarkWeight(b) ==
    IF b >= dark_threshold THEN Scale
    ELSE extreme_downweight * 100
         + ((100 - extreme_downweight)
            * ExpNegRatio((dark_threshold - b) * (dark_threshold - b),
                          2 * dark_sigma * dark_sigma)) \div 100

\* light_weights of a pixel.
LightWeight(b) ==
    IF b <= light_threshold THEN Scale
    ELSE extreme_downweight * 100
         + ((100 - extreme_downweight)
            * ExpNegRatio((b - light_threshold) * (b - light_threshold),
                          2 * light_sigma * light_sigma)) \div 100

\* mid_tone_factor of a pixel.
MidToneFactor(b) ==
    Scale + ((mid_tone_boost - 100)
             * ExpNegRatio((b - mid_tone_center) * (b - mid_tone_center),
                           2 * mid_tone_sigma * mid_tone_sigma)) \div 100

\* The importance of a pixel before normalisation.
RawImportance(b) ==
    LET inverted == (100 - b) * 100
        extreme_weights == Min2(DarkWeight(b), LightWeight(b))
    IN  (((inverted * extreme_weights) \div Scale) * MidToneFactor(b)) \div Scale

\* The mutant of Normalize: the minimum is not subtracted.
NormalizeNoShift(raw) ==
    LET vals == {raw[p] : p \in DOMAIN raw}
        importance_min == SetMin(vals)
        importance_max == SetMax(vals)
    IN  IF importance_max > importance_min
        THEN Array([p \in DOMAIN raw |->
                 (raw[p] * Scale) \div (importance_max - importance_min)])
        ELSE Array([p \in DOMAIN raw |-> Scale])

\* The min/max rescaling of compute_importance and its flat fallback.
Normalize(raw) ==
    LET vals == {raw[p] : p \in DOMAIN raw}
        importance_min == SetMin(vals)
        importance_max == SetMax(vals)
    IN  IF importance_max > importance_min
        THEN Array([p \in DOMAIN raw |->
                 ((raw[p] - importance_min) * Scale)
                     \div (importance_max - importance_min)])
        ELSE Array([p \in DOMAIN raw |-> Scale])

Unnormalised(img) == Array([p \in DOMAIN img |-> RawImportance(img[p])])

compute_importance(img) == Normalize(Unnormalised(img))

(***************************************************************************)
(* The noise source: numpy's process-wide generator, a deterministic       *)
(* stream of standard-normal draws that np.random.seed restarts.           *)
(***************************************************************************)
Seeds == {None, 0, 1}

\* The generator's state after one draw.
NextRng(s) == (5 * s + 3) % RngMod

RECURSIVE Advance(_, _)
Advance(s, n) == IF n = 0 THEN s ELSE Advance(NextRng(s), n - 1)

\* The value drawn in state s, fixed-point.
Draw(s) == (((s % 5) - 2) * Scale * 3) \div 4

\* The mutant of Reseed: the seed is ignored.
ReseedIgnored(state, sd) == state

\* `if seed is not None: np.random.seed(seed)`.
Reseed(state, sd) == IF sd # None THEN (7 * sd + 1) % RngMod ELSE state

\* The states of the generator after draws 1..n from state s.
RECURSIVE Stream(_, _)
Stream(s, n) == IF n = 0 THEN <<>> ELSE <<NextRng(s)>> \o Stream(NextRng(s), n - 1)

\* np.random.randn(h, w) drawn from state s, in row-major order.
Randn(s, h, w) ==
    LET st == Stream(s, h * w)
    IN  Array([p \in Cells(h, w) |-> Draw(st[p])])

\* The mutant of Noise: the noise is not scaled by noise_scale_factor.
NoiseUnscaled(z, nsf, it, n) == Trunc(z * 100 * (n - it), 100 * n)

\* One cell of randn * noise_scale_factor * (1.0 - i / num_points).
Noise(z, nsf, it, n) == Trunc(z * nsf * (n - it), 100 * n)

(***************************************************************************)
(* Void-and-cluster sampler.                                               *)
(***************************************************************************)
\* int(H * W * percentage), percentage in quarters.
NumPoints(h, w, pct) == Trunc(h * w * pct, 4)

\* energy = -importance * content_bias.
InitialEnergy(imp, cb) == Array([p \in DOMAIN imp |-> -((imp[p] * cb) \div 100)])

\* The window of the first point: rows y_min..y_max-1, columns x_min..x_max-1.
FirstWindow(h, w) ==
    LET center_y == h \div 2
        center_x == w \div 2
        search_radius == Min2(h, w) \div 4
        y_min == Max2(0, center_y - search_radius)
        y_max == Min2(h, center_y + search_radius)
        x_min == Max2(0, center_x - search_radius)
        x_max == Min2(w, center_x + search_radius)
    IN  Region(y_min, y_max, x_min, x_max, w)

\* energy_with_noise = energy + noise.
EnergyWithNoise(E, s, nsf, it, n, h, w) ==
    LET z == Randn(s, h, w)
    IN  Array([p \in DOMAIN E |-> AddE(E[p], Noise(z[p], nsf, it, n))])

\* The mutant of AccumulateKernel: no repulsion is added.
AccumulateNothing(E, kernel, k, y, x, h, w) == E

\* The mutant of AccumulateKernel: a kernel cell that falls past an edge is
\* dropped instead of wrapped.
AccumulateClipped(E, kernel, k, y, x, h, w) ==
    LET after[n \in 0 .. k * k] ==
            IF n = 0 THEN E
            ELSE LET ky_offset == (n - 1) \div k
                     kx_offset == (n - 1) % k
                     target_y == y + ky_offset - (k \div 2)
                     target_x == x + kx_offset - (k \div 2)
                 IN  IF target_y \in 0 .. h - 1 /\ target_x \in 0 .. w - 1
                     THEN [after[n - 1] EXCEPT ![At(target_y, target_x, w)] =
                              AddE(@, kernel[At(ky_offset, kx_offset, k)])]
                     ELSE after[n - 1]
    IN  after[k * k]

\* The two loops over the kernel: every kernel cell is added to the grid
\* cell it wraps to.  after[n] is the energy after the first n kernel cells.
AccumulateKernel(E, kernel, k, y, x, h, w) ==
    LET after[n \in 0 .. k * k] ==
            IF n = 0 THEN E
            ELSE LET ky_offset == (n - 1) \div k
                     kx_offset == (n - 1) % k
                     dy == ky_offset - (k \div 2)
                     dx == kx_offset - (k \div 2)
                     target_y == (y + dy) % h
                     target_x == (x + dx) % w
                 IN  [after[n - 1] EXCEPT ![At(target_y, target_x, w)] =
                         AddE(@, kernel[At(ky_offset, kx_offset, k)])]
    IN  after[k * k]

\* The mutant of Sentinel: the chosen cell keeps its energy.
SentinelOmitted(E, y, x, w) == E

\* The mutant of Sentinel: the chosen cell gets a large finite energy.
SentinelLargeFinite(E, y, x, w) == [E EXCEPT ![At(y, x, w)] = 1000000]

\* energy[y, x] = np.inf.
Sentinel(E, y, x, w) == [E EXCEPT ![At(y, x, w)] = Inf]

\* The mutant of MarkStipple: row and column are swapped.
MarkStippleSwapped(img, y, x, w) == [img EXCEPT ![At(x, y, w)] = 0]

\* stipple_image[y, x] = 0.0.
MarkStipple(img, y, x, w) == [img EXCEPT ![At(y, x, w)] = 0]

\* The body of the loop from `# Record sample` on, for the chosen (y, x).
Place(y, x) ==
    /\ samples' = Append(samples, <<y, x, importance[At(y, x, W)]>>)
    /\ stipple_image' = MarkStipple(stipple_image, y, x, W)
    /\ energy' = Sentinel(AccumulateKernel(energy, repulsion_kernel,
                              KernelSide(kernel_size),
                              y, x, H, W), y, x, W)
    /\ i' = i + 1

\* The inputs of a call that the call leaves alone.
Inputs == <<H, W, image, importance, percentage, sigma, content_bias,
            noise_scale_factor>>

Unused == <<frame_increment, frame_indices, frames>>

\* void_and_cluster is called, for the first or the second time in this
\* process, and runs up to the loop.
Call(sd) ==
    /\ pc = "idle" \/ (pc = "returned" /\ run = 1)
    /\ prev' = IF pc = "returned"
               THEN [samples |-> samples, stipple_image |-> stipple_image,
                     seed |-> seed]
               ELSE prev
    /\ run' = run + 1
    /\ seed' = sd
    /\ rng_state' = Reseed(rng_state, sd)
    /\ num_points' = NumPoints(H, W, percentage)
    /\ energy' = InitialEnergy(importance, content_bias)
    /\ kernel_size' = KernelSize(sigma)
    /\ repulsion_kernel' = RepulsionKernel(kernel_size', sigma)
    /\ samples' = <<>>
    /\ stipple_image' = Array([p \in Cells(H, W) |-> 1])
    /\ i' = 0
    /\ pc' = "loop"
    /\ UNCHANGED <<Inputs, Unused>>

\* Iteration 0: the minimum of the window around the centre; np.argmin
\* raises ValueError on an empty window.
FirstPoint ==
    /\ pc = "loop" /\ i = 0 /\ i < num_points
    /\ \/ /\ FirstWindow(H, W) = {}
          /\ pc' = "raised"
          /\ UNCHANGED <<samples, stipple_image, energy, i>>
       \/ /\ FirstWindow(H, W) # {}
          /\ \E m \in {ArgMin(energy, FirstWindow(H, W))} :
                 Place(RowOf(m, W), ColOf(m, W))
          /\ pc' = pc
    /\ UNCHANGED <<Inputs, Unused, seed, rng_state, num_points, kernel_size,
                   repulsion_kernel, run, prev>>

\* The mutant of NextPoint: the noise is added to the energy field itself.
NextPointNoisePersisted ==
    /\ pc = "loop" /\ i > 0 /\ i < num_points
    /\ LET noisy == EnergyWithNoise(energy, rng_state, noise_scale_factor,
                                    i, num_points, H, W)
       IN  \E m \in {ArgMin(noisy, Cells(H, W))} :
               /\ samples' = Append(samples, <<RowOf(m, W), ColOf(m, W),
                                               importance[m]>>)
               /\ stipple_image' = MarkStipple(stipple_image, RowOf(m, W),
                                               ColOf(m, W), W)
               /\ energy' = Sentinel(AccumulateKernel(noisy, repulsion_kernel,
                                         KernelSide(kernel_size),
                                         RowOf(m, W), ColOf(m, W), H, W),
                                     RowOf(m, W), ColOf(m, W), W)
               /\ i' = i + 1
    /\ rng_state' = Advance(rng_state, H * W)
    /\ UNCHANGED <<Inputs, Unused, pc, seed, num_points, kernel_size,
                   repulsion_kernel, run, prev>>

\* Iterations 1..N-1: the minimum of the energy with annealed noise.
NextPoint ==
    /\ pc = "loop" /\ i > 0 /\ i < num_points
    /\ \E m \in {ArgMin(EnergyWithNoise(energy, rng_state, noise_scale_factor,
                                        i, num_points, H, W), Cells(H, W))} :
           Place(RowOf(m, W), ColOf(m, W))
    /\ rng_state' = Advance(rng_state, H * W)
    /\ UNCHANGED <<Inputs, Unused, pc, seed, num_points, kernel_size,
                   repulsion_kernel, run, prev>>

\* The loop is over: `return stipple_image, samples`.
Return ==
    /\ pc = "loop" /\ i >= num_points
    /\ pc' = "returned"
    /\ UNCHANGED <<Inputs, Unused, seed, rng_state, num_points, kernel_size,
                   repulsion_kernel, energy, i, samples, stipple_image, run, prev>>

(***************************************************************************)
(* Inputs of the sampler: images of a few kinds, mapped by                 *)
(* compute_importance as run_stippling does.                               *)
(***************************************************************************)
ImageKinds == {"flat", "halves", "corner"}

Image(kind, h, w) ==
    Array([p \in Cells(h, w) |->
        CASE kind = "flat" -> 50
          [] kind = "halves" -> IF 2 * ColOf(p, w) < w THEN 10 ELSE 90
          [] kind = "corner" -> IF p = h * w THEN 65 ELSE 95])

Sigmas == {-40, 0, 90, 110}
ContentBiases == {90}
NoiseScales == {0, 10}

NoResult == [samples |-> <<>>, stipple_image |-> <<>>, seed |-> None]

Init ==
    /\ pc = "idle"
    /\ H \in 1 .. MaxDim
    /\ W \in 1 .. MaxDim
    /\ H * W <= MaxCells
    /\ \E kind \in ImageKinds : image = Image(kind, H, W)
    /\ importance = compute_importance(image)
    /\ percentage \in -1 .. MaxPctQ
    /\ sigma \in Sigmas
    /\ content_bias \in ContentBiases
    /\ noise_scale_factor \in NoiseScales
    /\ seed = None
    /\ rng_state = 0
    /\ num_points = 0
    /\ kernel_size = 0
    /\ repulsion_kernel = <<>>
    /\ energy = <<>>
    /\ i = 0
    /\ samples = <<>>
    /\ stipple_image = <<>>
    /\ run = 0
    /\ prev = NoResult
    /\ frame_increment = 0
    /\ frame_indices = <<>>
    /\ frames = <<>>

Next ==
    \/ \E sd \in Seeds : Call(sd)
    \/ FirstPoint
    \/ NextPoint
    \/ Return

Spec == Init /\ [][Next]_vars

(***************************************************************************)
(* The kernel factory alone: the kernel void_and_cluster builds for every  *)
(* sigma > 0 up to MaxSigma hundredths.                                    *)
(***************************************************************************)
InitKernel ==
    /\ pc = "kernel_start"
    /\ sigma \in 1 .. MaxSigma
    /\ H = 0 /\ W = 0 /\ image = <<>> /\ importance = <<>>
    /\ percentage = 0 /\ content_bias = 0 /\ noise_scale_factor = 0
    /\ seed = None /\ rng_state = 0 /\ num_points = 0
    /\ kernel_size = 0 /\ repulsion_kernel = <<>> /\ energy = <<>>
    /\ i = 0 /\ samples = <<>> /\ stipple_image = <<>>
    /\ run = 0 /\ prev = NoResult
    /\ frame_increment = 0 /\ frame_indices = <<>> /\ frames = <<>>

\* `# Create repulsion kernel` up to the scaling by sigma ** 2.
BuildKernel ==
    /\ pc = "kernel_start"
    /\ kernel_size' = KernelSize(sigma)
    /\ repulsion_kernel' = RepulsionKernel(kernel_size', sigma)
    /\ pc' = "kernel_done"
    /\ UNCHANGED <<Inputs, Unused, seed, rng_state, num_points, energy, i,
                   samples, stipple_image, run, prev>>

SpecKernel == InitKernel /\ [][BuildKernel]_vars

(***************************************************************************)
(* The importance mapper alone, on every brightness grid of at most        *)
(* MaxImpCells cells over BrightnessLevels.                                *)
(***************************************************************************)
MaxImpCells == 4

BrightnessLevels == {0, 10, 20, 50, 65, 80, 90, 100}

InitImp ==
    /\ pc = "imp_start"
    /\ H \in 1 .. MaxImpCells
    /\ W \in 1 .. MaxImpCells
    /\ H * W <= MaxImpCells
    /\ image \in [1 .. H * W -> BrightnessLevels]
    /\ importance = <<>>
    /\ sigma = 0 /\ percentage = 0 /\ content_bias = 0 /\ noise_scale_factor = 0
    /\ seed = None /\ rng_state = 0 /\ num_points = 0
    /\ kernel_size = 0 /\ repulsion_kernel = <<>> /\ energy = <<>>
    /\ i = 0 /\ samples = <<>> /\ stipple_image = <<>>
    /\ run = 0 /\ prev = NoResult
    /\ frame_increment = 0 /\ frame_indices = <<>> /\ frames = <<>>

\* importance = compute_importance(image).
ComputeImportance ==
    /\ pc = "imp_start"
    /\ importance' = compute_importance(image)
    /\ pc' = "imp_done"
    /\ UNCHANGED <<H, W, image, percentage, sigma, content_bias,
                   noise_scale_factor, Unused, seed, rng_state, num_points,
                   kernel_size, repulsion_kernel, energy, i, samples,
                   stipple_image, run, prev>>

SpecImp == InitImp /\ [][ComputeImportance]_vars

(***************************************************************************)
(* make_progressive_gif: the choice of the frames and the frames drawn.    *)
(***************************************************************************)
\* list(range(0, n, inc)) for inc >= 1.
Range(n, inc) == Array([j \in 1 .. ((n + inc - 1) \div inc) |-> (j - 1) * inc])

InitGif ==
    /\ pc = "gif_start"
    /\ H = 4 /\ W = 4
    /\ \E n \in 0 .. MaxSamples :
          samples = Array([k \in 1 .. n |-> <<RowOf(k, 4), ColOf(k, 4), Scale>>])
    /\ frame_increment \in 1 .. MaxInc
    /\ frame_indices = <<>> /\ frames = <<>>
    /\ image = <<>> /\ importance = <<>>
    /\ sigma = 0 /\ percentage = 0 /\ content_bias = 0 /\ noise_scale_factor = 0
    /\ seed = None /\ rng_state = 0 /\ num_points = 0
    /\ kernel_size = 0 /\ repulsion_kernel = <<>> /\ energy = <<>>
    /\ i = 0 /\ stipple_image = <<>>
    /\ run = 0 /\ prev = NoResult

GifFrame == <<Inputs, seed, rng_state, num_points, kernel_size, repulsion_kernel,
              energy, i, samples, stipple_image, run, prev, frame_increment>>

\* `# Determine frame indices`: frame_indices[-1] of an empty list raises
\* IndexError.
SelectFrames ==
    /\ pc = "gif_start"
    /\ LET num_samples == Len(samples)
           indices == Range(num_samples, frame_increment)
       IN  \/ /\ indices = <<>>
              /\ pc' = "gif_raised"
              /\ UNCHANGED frame_indices
           \/ /\ indices # <<>>
              /\ frame_indices' =
                    IF indices[Len(indices)] # num_samples - 1
                    THEN Append(indices, num_samples - 1)
                    ELSE indices
              /\ pc' = "gif_frames"
    /\ UNCHANGED <<GifFrame, frames>>

\* One turn of `for frame_idx in frame_indices`: the points up to and
\* including frame_idx are drawn and the frame is grabbed.
DrawFrame ==
    /\ pc = "gif_frames"
    /\ Len(frames) < Len(frame_indices)
    /\ LET frame_idx == frame_indices[Len(frames) + 1]
           frame_samples == IF frame_idx >= 0
                            THEN SubSeq(samples, 1, frame_idx + 1)
                            ELSE <<>>
       IN  frames' = Append(frames, frame_samples)
    /\ UNCHANGED <<GifFrame, frame_indices, pc>>

\* The writer is closed.
SaveGif ==
    /\ pc = "gif_frames"
    /\ Len(frames) = Len(frame_indices)
    /\ pc' = "gif_done"
    /\ UNCHANGED <<GifFrame, frame_indices, frames>>

NextGif == SelectFrames \/ DrawFrame \/ SaveGif

SpecGif == InitGif /\ [][NextGif]_vars

(***************************************************************************)
(* The accumulation loop alone: `# Add repulsion` of one iteration, for    *)
(* every grid shape up to MaxAccDim, every chosen location, kernels of the *)
(* sides in AccKernelSides and energy grids with and without a cell that   *)
(* was chosen before.  The sample of the iteration has just been recorded. *)
(***************************************************************************)
MaxAccDim == 4

AccKernelSides == {1, 3, 5, 7}

\* A kernel of side k: the repulsion kernel of sigma = 0.9, or a kernel
\* whose cells all differ.
AccKernel(kind, k) ==
    IF kind = "gaussian" THEN RepulsionKernel(k, 90)
    ELSE Array([n \in 1 .. k * k |-> n * n])

\* An energy grid whose cells all differ; cell 1 was chosen before.
AccEnergy(kind, h, w) ==
    Array([p \in Cells(h, w) |->
        IF kind = "chosen" /\ p = 1 THEN Inf ELSE -(37 * p)])

InitAccum ==
    /\ pc = "acc_start"
    /\ H \in 1 .. MaxAccDim
    /\ W \in 1 .. MaxAccDim
    /\ \E y \in 0 .. H - 1, x \in 0 .. W - 1 : samples = <<<<y, x, Scale>>>>
    /\ kernel_size \in AccKernelSides
    /\ \E kind \in {"gaussian", "distinct"} :
          repulsion_kernel = AccKernel(kind, kernel_size)
    /\ \E kind \in {"fresh", "chosen"} : energy = AccEnergy(kind, H, W)
    /\ image = <<>> /\ importance = <<>>
    /\ sigma = 0 /\ percentage = 0 /\ content_bias = 0 /\ noise_scale_factor = 0
    /\ seed = None /\ rng_state = 0 /\ num_points = 0
    /\ i = 0 /\ stipple_image = <<>>
    /\ run = 0 /\ prev = NoResult
    /\ frame_increment = 0 /\ frame_indices = <<>> /\ frames = <<>>

\* `# Add repulsion: circular convolution with wraparound` at the sample
\* just recorded.
Accumulate ==
    /\ pc = "acc_start"
    /\ LET y == samples[Len(samples)][1]
           x == samples[Len(samples)][2]
       IN  energy' = AccumulateKernel(energy, repulsion_kernel,
                                      KernelSide(kernel_size), y, x, H, W)
    /\ pc' = "acc_done"
    /\ UNCHANGED <<Inputs, Unused, seed, rng_state, num_points, kernel_size,
                   repulsion_kernel, i, samples, stipple_image, run, prev>>

SpecAccum == InitAccum /\ [][Accumulate]_vars

(***************************************************************************)
(* Properties.                                                             *)
(***************************************************************************)
\* The locations of a sample sequence.
Locations(seq) == {<<seq[k][1], seq[k][2]>> : k \in 1 .. Len(seq)}

\* The locations of the mark cells of a stipple grid of width w.
Marks(img, w) == {<<RowOf(p, w), ColOf(p, w)>> : p \in {q \in DOMAIN img : img[q] = 0}}

\* floor(H * W * percentage) for percentage > 0, and 0 otherwise.
ExpectedLength == IF percentage > 0 THEN (H * W * percentage) \div 4 ELSE 0

InCall == pc \in {"loop", "returned", "raised"}

\* C1: for every grid shape H x W (H, W >= 1) and every percentage the call
\* raises no error and returns a sample sequence of exactly
\* floor(H*W*percentage) samples (0 when percentage <= 0), the loop never
\* running past that many iterations.
C1_LengthContract ==
    InCall =>
        /\ pc # "raised"
        /\ Len(samples) <= ExpectedLength
        /\ pc = "returned" => Len(samples) = ExpectedLength

\* C2, as stated: the locations of the returned sample sequence are pairwise
\* distinct.
C2_DistinctAlways ==
    pc = "returned" => Cardinality(Locations(samples)) = Len(samples)

\* C2, amended: whenever no more samples are asked for than the grid has
\* cells, the locations recorded so far are pairwise distinct, in the loop
\* and in the returned sequence.
C2_DistinctWithinGrid ==
    (pc \in {"loop", "returned"} /\ num_points <= H * W) =>
        \A a, b \in 1 .. Len(samples) :
            a # b => <<samples[a][1], samples[a][2]>> # <<samples[b][1], samples[b][2]>>

\* A call that filled the whole grid under noise has returned.
C2_Witness ==
    /\ pc = "returned"
    /\ Len(samples) = H * W
    /\ noise_scale_factor > 0
    /\ sigma > 0

\* C3, as stated: the mark cells are exactly the recorded locations after
\* every iteration, every other cell is background, and the returned grid
\* has exactly len(sample_sequence) mark cells.
C3_MarksCountAlways ==
    pc \in {"loop", "returned"} =>
        /\ Marks(stipple_image, W) = Locations(samples)
        /\ \A p \in DOMAIN stipple_image : stipple_image[p] \in {0, 1}
        /\ pc = "returned" => Cardinality(Marks(stipple_image, W)) = Len(samples)

\* C3, amended: the mark cells are exactly the recorded locations after
\* every iteration and every other cell is background; the number of mark
\* cells is len(sample_sequence) whenever no more samples are asked for than
\* the grid has cells, and the number of cells of the grid otherwise.
C3_MarksAreSamples ==
    pc \in {"loop", "returned"} =>
        /\ Marks(stipple_image, W) = Locations(samples)
        /\ \A p \in DOMAIN stipple_image : stipple_image[p] \in {0, 1}
        /\ DOMAIN stipple_image = Cells(H, W)
        /\ Cardinality(Marks(stipple_image, W)) = Min2(Len(samples), H * W)

\* A call on a grid that is not square has returned several marks.
C3_Witness ==
    /\ pc = "returned"
    /\ H # W
    /\ Len(samples) >= 3
    /\ Len(samples) < H * W

\* C4: a second call with the same inputs and the same seed returns the
\* sample sequence and the stipple grid of the first call.
C4_SameSeedSameOutput ==
    (pc = "returned" /\ run = 2 /\ seed # None /\ prev.seed = seed) =>
        /\ samples = prev.samples
        /\ stipple_image = prev.stipple_image

\* Two calls with one seed have returned, the noise having been in force
\* over several iterations.
C4_Witness ==
    /\ pc = "returned" /\ run = 2
    /\ seed # None /\ prev.seed = seed
    /\ noise_scale_factor > 0
    /\ Len(samples) >= 3

\* C5: a call with sigma <= 0 is rejected before the kernel is built: it
\* never reaches the loop, places no sample and returns nothing.
C5_SigmaRejected ==
    sigma <= 0 =>
        /\ pc \notin {"loop", "returned"}
        /\ samples = <<>>

\* The side of a square kernel.
SideOf(kernel) == CHOOSE k \in 0 .. Len(kernel) : k * k = Len(kernel)

\* C6, as stated: the side of the kernel is the smallest odd integer
\* >= 6 * sigma + 1.
C6_SideCoversSixSigmaPlusOne ==
    pc = "kernel_done" =>
        LET side == SideOf(repulsion_kernel)
        IN  /\ side % 2 = 1
            /\ side * 100 >= 6 * sigma + 100
            /\ (side - 2) * 100 < 6 * sigma + 100

\* C6, amended: the side of the kernel is the smallest odd integer
\* >= floor(6 * sigma) + 1; it is 7 for sigma = 0.9.
C6_SideCoversFloorSixSigmaPlusOne ==
    pc = "kernel_done" =>
        LET side == SideOf(repulsion_kernel)
            floor6 == (6 * sigma) \div 100
        IN  /\ side % 2 = 1
            /\ side >= floor6 + 1
            /\ side - 2 < floor6 + 1
            /\ sigma = 90 => side = 7

\* The kernel of sigma = 1.1 is built: its side is 7, below 6 * 1.1 + 1.
C6_Witness ==
    /\ pc = "kernel_done"
    /\ sigma = 110
    /\ SideOf(repulsion_kernel) = 7

\* C7: with noise_scale_factor = 0 a second call with the same inputs and
\* any seed returns the output of the first call, and every iteration after
\* the first selects the row-major-first minimum of the unperturbed energy.
C7_ZeroNoiseIgnoresSeed ==
    /\ [](  (pc = "returned" /\ run = 2 /\ noise_scale_factor = 0) =>
               /\ samples = prev.samples
               /\ stipple_image = prev.stipple_image)
    /\ [][  (pc = "loop" /\ i > 0 /\ i < num_points /\ noise_scale_factor = 0) =>
               /\ Len(samples') = Len(samples) + 1
               /\ At(samples'[i + 1][1], samples'[i + 1][2], W)
                      = ArgMin(energy, Cells(H, W))  ]_vars

\* Two calls with different seeds and no noise have returned.
C7_Witness ==
    /\ pc = "returned" /\ run = 2
    /\ noise_scale_factor = 0
    /\ seed # prev.seed /\ seed # None /\ prev.seed # None
    /\ Len(samples) >= 3

\* C8: every value of the importance grid lies in [0, 1]; the grid is the
\* min/max rescaling of the unnormalised importance (its minimum at 0, its
\* maximum at 1, the order kept), and it is uniformly 1.0 when the
\* unnormalised importance is flat, as it is for every uniform image.
C8_ImportanceNormalised ==
    pc = "imp_done" =>
        LET raw == Unnormalised(image)
            flat == \A p, q \in DOMAIN raw : raw[p] = raw[q]
        IN  /\ DOMAIN importance = DOMAIN image
            /\ \A p \in DOMAIN importance :
                   importance[p] >= 0 /\ importance[p] <= Scale
            /\ (\A p, q \in DOMAIN image : image[p] = image[q]) => flat
            /\ flat => \A p \in DOMAIN importance : importance[p] = Scale
            /\ ~flat =>
                 /\ \E p \in DOMAIN importance : importance[p] = 0
                 /\ \E p \in DOMAIN importance : importance[p] = Scale
                 /\ \A p, q \in DOMAIN raw :
                        raw[p] <= raw[q] => importance[p] <= importance[q]

\* A grid of three different importances has been mapped.
C8_Witness ==
    /\ pc = "imp_done"
    /\ \E p, q, r \in DOMAIN importance :
          /\ importance[p] = 0
          /\ importance[q] > 0 /\ importance[q] < Scale
          /\ importance[r] = Scale

\* C9: for every number n of samples and every frame_increment >= 1 the
\* frame indices are chosen without error: 0, inc, 2*inc, ... below n and
\* then n-1, strictly increasing, within 0..n-1, ending in n-1, and frame
\* number k shows the first frame_indices[k] + 1 samples in order.
C9_FrameIndices ==
    pc \in {"gif_raised", "gif_frames", "gif_done"} =>
        LET n == Len(samples)
        IN  /\ pc # "gif_raised"
            /\ \A k \in 1 .. Len(frame_indices) :
                   /\ frame_indices[k] \in 0 .. n - 1
                   /\ k > 1 => frame_indices[k - 1] < frame_indices[k]
                   /\ frame_indices[k] % frame_increment = 0
                          \/ frame_indices[k] = n - 1
            /\ \A m \in 0 .. n - 1 :
                   m % frame_increment = 0 =>
                       \E k \in 1 .. Len(frame_indices) : frame_indices[k] = m
            /\ frame_indices # <<>>
            /\ frame_indices[Len(frame_indices)] = n - 1
            /\ \A k \in 1 .. Len(frames) :
                   frames[k] = SubSeq(samples, 1, frame_indices[k] + 1)

\* The scenario of C10.
Scenario ==
    /\ H = 4 /\ W = 4
    /\ image = Image("flat", 4, 4)
    /\ percentage = 1
    /\ sigma = 90
    /\ content_bias = 90
    /\ noise_scale_factor = 0
    /\ seed = 0

Abs(a) == IF a >= 0 THEN a ELSE -a

Chebyshev(s, t) == Max2(Abs(s[1] - t[1]), Abs(s[2] - t[2]))

\* C10: in the scenario (4x4 grid of brightness 0.5, percentage 0.25,
\* sigma 0.9, content_bias 0.9, no noise, seed 0) the importance is
\* uniformly 1.0, exactly 4 samples are placed, and no two of them are at
\* Chebyshev distance 1.
C10_ScenarioSpacing ==
    (Scenario /\ pc = "returned") =>
        /\ \A p \in DOMAIN importance : importance[p] = Scale
        /\ Len(samples) = 4
        /\ \A a, b \in 1 .. Len(samples) : Chebyshev(samples[a], samples[b]) # 1

\* The scenario has run to its end.
C10_Witness ==
    /\ Scenario
    /\ pc = "returned"
    /\ Len(samples) = 4

\* The cells of an energy grid that hold +infinity.
InfiniteCells(E) == {p \in DOMAIN E : E[p] = Inf}

\* The cells of the samples recorded so far.
ChosenCells == {At(samples[k][1], samples[k][2], W) : k \in 1 .. Len(samples)}

\* C11: before the first iteration and after every iteration of the loop
\* the cells of the energy grid that hold +infinity are exactly the cells of
\* the samples recorded so far: no other cell is infinite, and a chosen cell
\* stays infinite under the kernels accumulated later.
C11_InfiniteCellsAreChosen ==
    InCall =>
        /\ DOMAIN energy = Cells(H, W)
        /\ InfiniteCells(energy) = ChosenCells

\* Several samples were placed with a kernel that covers the whole grid, so
\* that every chosen cell but the last was accumulated on after it was
\* chosen, and cells are left that were accumulated on and never chosen.
C11_Witness ==
    /\ pc = "returned"
    /\ sigma > 0
    /\ KernelSide(kernel_size) >= Max2(H, W)
    /\ Len(samples) >= 3
    /\ Len(samples) < H * W

\* The window of C12 on an H x W grid: the cells within min(H, W) // 4 of
\* (H // 2, W // 2) in each axis, the far end left out as a slice does.
CentreWindow ==
    LET r == Min2(H, W) \div 4
    IN  {p \in Cells(H, W) :
            /\ (H \div 2) - r <= RowOf(p, W) /\ RowOf(p, W) < (H \div 2) + r
            /\ (W \div 2) - r <= ColOf(p, W) /\ ColOf(p, W) < (W \div 2) + r}

\* C12: for every grid shape H x W with at least one sample to place,
\* iteration 0 places a first sample; it is the row-major-first cell of the
\* minimum of the initial energy within the window around the centre, and so
\* within Chebyshev distance min(H, W) // 4 of (H // 2, W // 2).
C12_FirstSampleInWindow ==
    (InCall /\ num_points >= 1 /\ (i >= 1 \/ pc = "raised")) =>
        /\ pc # "raised"
        /\ Len(samples) >= 1
        /\ LET first == At(samples[1][1], samples[1][2], W)
               E0 == InitialEnergy(importance, content_bias)
           IN  /\ first \in CentreWindow
               /\ \A q \in CentreWindow :
                      E0[first] < E0[q] \/ (E0[first] = E0[q] /\ first <= q)
               /\ Chebyshev(samples[1], <<H \div 2, W \div 2>>)
                      <= Min2(H, W) \div 4

\* The sum of kernel[n] over the kernel cells n of S.
RECURSIVE SumOver(_, _)
SumOver(kernel, S) ==
    IF S = {} THEN 0
    ELSE LET n == CHOOSE m \in S : TRUE
         IN  kernel[n] + SumOver(kernel, S \ {n})

\* Along one axis of length n: the kernel rows (or columns) j whose offset
\* j - k // 2 from the kernel's centre, placed at `at`, wraps to t.
WrapsTo(k, at, n, t) == {j \in 0 .. k - 1 : (at + j - (k \div 2)) % n = t}

\* The kernel cells whose offset (dy, dx) from the kernel's centre has
\* (y + dy) mod h = r and (x + dx) mod w = c.
Hits(k, y, x, h, w, r, c) ==
    {At(ky, kx, k) : ky \in WrapsTo(k, y, h, r), kx \in WrapsTo(k, x, w, c)}

\* What cell (r, c) gains from the kernel shifted to (y, x) and repeated
\* with periods h and w: the kernel cells at (r - y + a*h, c - x + b*w)
\* from the kernel's centre, over all integers a and b.
ShiftedGain(kernel, k, y, x, h, w, r, c) ==
    SumOver(kernel,
        {At(ky, kx, k) : <<ky, kx>> \in
            {<<r - y + a * h + (k \div 2), c - x + b * w + (k \div 2)>> :
                 a \in -k .. k, b \in -k .. k}
            \cap ((0 .. k - 1) \X (0 .. k - 1))})

\* C13: accumulating a k x k kernel at (y, x) on an H x W energy grid adds
\* to each cell (r, c) exactly the sum of the kernel cells whose offset
\* wraps to (r, c), which is what the kernel shifted with wraparound holds
\* there; a cell that no offset reaches is unchanged.
C13_ToroidalAccumulation ==
    [][ pc = "acc_start" =>
          LET y == samples[Len(samples)][1]
              x == samples[Len(samples)][2]
              k == KernelSide(kernel_size)
          IN  /\ DOMAIN energy' = Cells(H, W)
              /\ \A r \in 0 .. H - 1, c \in 0 .. W - 1 :
                     LET hits == Hits(k, y, x, H, W, r, c)
                         gain == SumOver(repulsion_kernel, hits)
                     IN  /\ energy'[At(r, c, W)] = AddE(energy[At(r, c, W)], gain)
                         /\ hits = {} => energy'[At(r, c, W)] = energy[At(r, c, W)]
                         /\ gain = ShiftedGain(repulsion_kernel, k, y, x, H, W, r, c)
      ]_vars

\* A kernel of distinct cells, taller than the grid and narrower than it, was
\* accumulated at the left edge of a grid with a cell chosen before: the
\* rightmost column has gained, an inner column has not.
C13_Witness ==
    /\ pc = "acc_done"
    /\ kernel_size > H /\ kernel_size > 1 /\ kernel_size < W
    /\ repulsion_kernel = AccKernel("distinct", kernel_size)
    /\ samples[1][2] = 0
    /\ energy[1] = Inf
    /\ energy[At(0, W - 1, W)] > AccEnergy("fresh", H, W)[At(0, W - 1, W)]
    /\ energy[At(0, W - 2, W)] = AccEnergy("fresh", H, W)[At(0, W - 2, W)]

\* C14: an iteration after the first leaves the importance grid as it was,
\* and changes the persisted energy field only by the kernel accumulated at
\* the location it chose and the +infinity at that location: the annealed
\* noise of the iteration is in neither.
C14_NoiseOnlyOnCopy ==
    [][ (pc = "loop" /\ i > 0 /\ i < num_points) =>
          /\ importance' = importance
          /\ Len(samples') = i + 1
          /\ DOMAIN energy' = Cells(H, W)
          /\ \E y \in {samples'[i + 1][1]}, x \in {samples'[i + 1][2]},
                k \in {KernelSide(kernel_size)} :
               \E rows \in {Array([r \in 1 .. H |-> WrapsTo(k, y, H, r - 1)])},
                  cols \in {Array([c \in 1 .. W |-> WrapsTo(k, x, W, c - 1)])} :
                   \A r \in 0 .. H - 1, c \in 0 .. W - 1 :
                       energy'[At(r, c, W)] =
                           IF r = y /\ c = x THEN Inf
                           ELSE AddE(energy[At(r, c, W)],
                                     SumOver(repulsion_kernel,
                                         {At(ky, kx, k) : ky \in rows[r + 1],
                                                          kx \in cols[c + 1]}))
      ]_vars

\* Iterations after the first have run under noise with a kernel in force,
\* and more are to come.
C14_Witness ==
    /\ pc = "loop"
    /\ i >= 2 /\ i < num_points
    /\ noise_scale_factor > 0
    /\ sigma > 0
    /\ \E p \in Cells(H, W) :
          Noise(Randn(rng_state, H, W)[p], noise_scale_factor, i, num_points) # 0

====
